---- MODULE Spec2Model ----
(***************************************************************************)
(* Model of get_wiki_content.py: the Lark wiki content retrieval script.   *)
(*                                                                         *)
(* One run of the script is a state machine: main() checks the input file, *)
(* loads the descriptors, reads the credential, and either lists the       *)
(* descriptors (dry mode) or fetches each one through a curl subprocess    *)
(* and writes the report.                                                  *)
(*                                                                         *)
(* Python values are tagged records (field t is the Python type), so that  *)
(* None, "", 0 and {} stay distinct and `if x:` is modelled by Truthy.     *)
(* TLA+ strings are ASCII: the pictographs the script prints or writes in  *)
(* front of some lines are left out of the modelled text, everything else  *)
(* of each line is kept.                                                   *)
(***************************************************************************)
EXTENDS Integers, Sequences, FiniteSets, TLC

(***************************************************************************)
(* Bounds of the model.                                                    *)
(***************************************************************************)
MaxDocs == 2
MaxMcpCalls == 2

(***************************************************************************)
(* Configuration constants of the script.                                  *)
(***************************************************************************)
INPUT_FILE == "temp/wiki_documents.json"
OUTPUT_FILE == "temp/wiki_documents_with_content.txt"

(***************************************************************************)
(* Python values.                                                          *)
(***************************************************************************)
None == [t |-> "NoneType"]
Str(s) == [t |-> "str", s |-> s]
PyInt(n) == [t |-> "int", n |-> n]
Dict(f) == [t |-> "dict", d |-> f]
List(q) == [t |-> "list", l |-> q]
EmptyDict == Dict([k \in {} |-> None])

\* bool(v): what `if v:` and `not v` test
Truthy(v) ==
    CASE v.t = "NoneType" -> FALSE
      [] v.t = "str" -> v.s # ""
      [] v.t = "int" -> v.n # 0
      [] v.t = "dict" -> DOMAIN v.d # {}
      [] v.t = "list" -> v.l # <<>>

\* v == 0
EqualsZero(v) == v.t = "int" /\ v.n = 0

\* {v} inside an f-string
Format(v) ==
    CASE v.t = "NoneType" -> "None"
      [] v.t = "str" -> v.s
      [] v.t = "int" -> ToString(v.n)

\* d.get(key, default) on a dict value
DictGet(v, key, default) == IF key \in DOMAIN v.d THEN v.d[key] ELSE default

\* s * n
RECURSIVE Rep(_, _)
Rep(s, n) == IF n = 0 THEN "" ELSE s \o Rep(s, n - 1)


\* doc.get('content')
DocGetContent(doc) == IF "content" \in DOMAIN doc THEN doc["content"] ELSE None

\* d[key] = v on a dict held as a TLA+ function from keys
SetItem(f, key, v) == [k \in DOMAIN f \cup {key} |-> IF k = key THEN v ELSE f[k]]

Line80Eq == Rep("=", 80)
Line80Dash == Rep("-", 80)

(***************************************************************************)
(* The descriptors of the input file: number, title, level, node_token,    *)
(* document_token, url.  Input arrays are all the sequences of at most     *)
(* MaxDocs descriptors, repeated descriptors and descending numbers        *)
(* included.  Every descriptor carries the six fields main reads; a file   *)
(* that json.load rejects is the "malformed" input file below.             *)
(***************************************************************************)
DocA == [number |-> 1, title |-> "Home", level |-> 0, node_token |-> "wikA",
         document_token |-> "doxA", url |-> "https://x.feishu.cn/wiki/wikA"]
DocB == [number |-> 2, title |-> "Guide", level |-> 1, node_token |-> "wikB",
         document_token |-> "doxB", url |-> "https://x.feishu.cn/wiki/wikB"]
Descriptors == {DocA, DocB}

InputArrays == UNION {[1..n -> Descriptors] : n \in 0..MaxDocs}

\* the input file: absent, present but not JSON, or a JSON array of descriptors
InputFiles ==
    {[kind |-> "missing", docs |-> <<>>], [kind |-> "malformed", docs |-> <<>>]}
    \cup {[kind |-> "array", docs |-> a] : a \in InputArrays}

\* os.environ.get("LARK_USER_ACCESS_TOKEN"): unset, set to "", set to a token
EnvTokens == {None, Str(""), Str("u-tok")}

\* the output file before the run: absent, or left by an earlier run
NoFile == [exists |-> FALSE, data |-> <<>>]
StaleFile == [exists |-> TRUE, data |-> <<"stale report\n">>]
OutputFiles == {NoFile, StaleFile}

(***************************************************************************)
(* The transport.  curl ends with an exit status and a body on stdout, or  *)
(* subprocess.run itself raises (curl cannot be started, or the body is    *)
(* not decodable as text).                                                 *)
(***************************************************************************)
BodyHello == "{\"code\":0,\"data\":{\"content\":\"hello\"}}"
BodyWorld == "{\"code\":0,\"data\":{\"content\":\"world\"}}"
BodyEmptyContent == "{\"code\":0,\"data\":{\"content\":\"\"}}"
BodyNoContent == "{\"code\":0,\"data\":{}}"
BodyNoData == "{\"code\":0}"
BodyNullData == "{\"code\":0,\"data\":null}"
BodyCode1 == "{\"code\":1}"
BodyNoCode == "{\"data\":{\"content\":\"hello\"}}"
BodyList == "[]"
BodyHtml == "<html>"

Bodies == {BodyHello, BodyWorld, BodyEmptyContent, BodyNoContent, BodyNoData,
           BodyNullData, BodyCode1, BodyNoCode, BodyList, BodyHtml}

\* the CompletedProcess values subprocess.run can return
CompletedProcesses ==
    {[returncode |-> 0, stdout |-> b] : b \in Bodies}
    \cup {[returncode |-> 7, stdout |-> ""], [returncode |-> 18, stdout |-> BodyHello]}

\* json.loads on the bodies above: the value, or raises (JSONDecodeError)
JsonLoads(s) ==
    CASE s = BodyHello ->
           [raises |-> FALSE,
            value |-> Dict([code |-> PyInt(0), data |-> Dict([content |-> Str("hello")])])]
      [] s = BodyWorld ->
           [raises |-> FALSE,
            value |-> Dict([code |-> PyInt(0), data |-> Dict([content |-> Str("world")])])]
      [] s = BodyEmptyContent ->
           [raises |-> FALSE,
            value |-> Dict([code |-> PyInt(0), data |-> Dict([content |-> Str("")])])]
      [] s = BodyNoContent ->
           [raises |-> FALSE, value |-> Dict([code |-> PyInt(0), data |-> EmptyDict])]
      [] s = BodyNoData ->
           [raises |-> FALSE, value |-> Dict([code |-> PyInt(0)])]
      [] s = BodyNullData ->
           [raises |-> FALSE, value |-> Dict([code |-> PyInt(0), data |-> None])]
      [] s = BodyCode1 ->
           [raises |-> FALSE, value |-> Dict([code |-> PyInt(1)])]
      [] s = BodyNoCode ->
           [raises |-> FALSE, value |-> Dict([data |-> Dict([content |-> Str("hello")])])]
      [] s = BodyList ->
           [raises |-> FALSE, value |-> List(<<>>)]
      [] OTHER -> [raises |-> TRUE, value |-> None]

(***************************************************************************)
(* get_content_via_api                                                     *)
(***************************************************************************)
api_url(document_token) ==
    "https://open.feishu.cn/open-apis/docx/v1/documents/" \o document_token
        \o "/raw_content"

\* the argument vector handed to subprocess.run
CurlArgv(document_token, user_token) ==
    <<"curl", "-s", "-X", "GET", api_url(document_token),
      "-H", "Authorization: Bearer " \o Format(user_token)>>

\* what get_content_via_api returns once subprocess.run has returned: the
\* bare except turns every exception of the parsing block (JSONDecodeError,
\* AttributeError of .get on a value that is no dict) into None
ContentOf(resp) ==
    IF resp.returncode = 0
    THEN LET parsed == JsonLoads(resp.stdout) IN
         IF parsed.raises THEN None
         ELSE LET data == parsed.value IN
              IF data.t # "dict" THEN None
              ELSE IF EqualsZero(DictGet(data, "code", None))
                   THEN LET inner == DictGet(data, "data", EmptyDict) IN
                        IF inner.t # "dict" THEN None
                        ELSE DictGet(inner, "content", Str(""))
                   ELSE None
    ELSE None

(***************************************************************************)
(* State of one run.                                                       *)
(*   inputFile, environToken : the environment the run starts in           *)
(*   outputFile              : the report file, as the chunks written      *)
(*   initialOutput           : the report file as the run found it         *)
(*   pc, exitCode            : position in main(), process exit status     *)
(*   documents, user_token, results, i, response, written : main's locals  *)
(*   curlCalls, inFlight     : curl subprocesses started / still running   *)
(*   responses               : what each finished curl returned, in order  *)
(*   stdout                  : the lines printed                           *)
(***************************************************************************)
VARIABLES inputFile, environToken, initialOutput, outputFile, pc, exitCode, documents,
          user_token, results, i, response, written, curlCalls, inFlight,
          responses, stdout

vars == <<inputFile, environToken, initialOutput, outputFile, pc, exitCode, documents,
          user_token, results, i, response, written, curlCalls, inFlight,
          responses, stdout>>

NoExit == -1
NoResponse == [returncode |-> -1, stdout |-> ""]

Init ==
    /\ inputFile \in InputFiles
    /\ environToken \in EnvTokens
    /\ initialOutput \in OutputFiles
    /\ outputFile = initialOutput
    /\ pc = "start"
    /\ exitCode = NoExit
    /\ documents = <<>>
    /\ user_token = None
    /\ results = <<>>
    /\ i = 0
    /\ response = NoResponse
    /\ written = 0
    /\ curlCalls = <<>>
    /\ inFlight = 0
    /\ responses = <<>>
    /\ stdout = <<>>

env == <<inputFile, environToken, initialOutput>>
locals == <<documents, user_token, results, i, response, written>>
transport == <<curlCalls, inFlight, responses>>

(***************************************************************************)
(* main: the input file check and the load.                                *)
(***************************************************************************)
\* variants: the exit statuses swapped
ExitStatusMissingInput_Zero == 1 - 1
ExitStatusDry_One == 0 + 1

ExitStatusMissingInput == 1
ExitStatusDry == 0

\* os.path.exists(INPUT_FILE) is false: two messages, sys.exit(1)
MissingInput ==
    /\ pc = "start"
    /\ inputFile.kind = "missing"
    /\ stdout' = stdout \o
         <<"Error: Input file not found: " \o INPUT_FILE,
           "Please run get_all_wiki_docs.sh first to generate the JSON file.">>
    /\ exitCode' = ExitStatusMissingInput
    /\ pc' = "exited"
    /\ UNCHANGED <<env, outputFile, locals, transport>>

\* json.load raises on a file that is not JSON: nothing catches it, the
\* interpreter prints the traceback and ends the process with status 1
MalformedInput ==
    /\ pc = "start"
    /\ inputFile.kind = "malformed"
    /\ exitCode' = 1
    /\ pc' = "crashed"
    /\ UNCHANGED <<env, outputFile, locals, transport, stdout>>

Banner(docs) ==
    <<Line80Eq,
      "Lark Wiki Document Content Retrieval",
      Line80Eq,
      "\nFound " \o ToString(Len(docs)) \o " documents",
      "Input: " \o INPUT_FILE,
      "Output: " \o OUTPUT_FILE,
      "\n" \o Line80Dash>>

\* the file is a JSON array: load it, print the banner, read the credential
LoadDocuments ==
    /\ pc = "start"
    /\ inputFile.kind = "array"
    /\ documents' = inputFile.docs
    /\ stdout' = stdout \o Banner(inputFile.docs)
    /\ user_token' = environToken
    /\ pc' = "token_check"
    /\ UNCHANGED <<env, outputFile, exitCode, results, i, response, written,
                   transport>>

(***************************************************************************)
(* main: dry mode.                                                         *)
(***************************************************************************)
\* variant: only an empty credential counts as missing (`if user_token == ""`)
IsDryMode_OnlyEmpty(token) == token = Str("")

\* `if not user_token`
IsDryMode(token) == ~Truthy(token)

Listing(docs) ==
    [k \in 1..Len(docs) |-> "   " \o docs[k].title \o ": " \o docs[k].document_token]

DryModeLines(docs) ==
    <<"\n  User Access Token not found!",
      "\nTo retrieve content, you need:",
      "  1. Set LARK_USER_ACCESS_TOKEN environment variable",
      "     OR",
      "  2. Use MCP tools manually (docx.v1.document.rawContent)",
      "\n Document Tokens to retrieve:",
      "">>
    \o Listing(docs) \o
    <<"\n To retrieve content using MCP tools:",
      "   Call: mcp_Lark_MCP_docx_v1_document_rawContent",
      "   With: document_id = {document_token}",
      "\n To retrieve via API:",
      "   export LARK_USER_ACCESS_TOKEN='your_token'",
      "   python3 get_wiki_content.py">>

DryMode ==
    /\ pc = "token_check"
    /\ IsDryMode(user_token)
    /\ stdout' = stdout \o DryModeLines(documents)
    /\ exitCode' = ExitStatusDry
    /\ pc' = "exited"
    /\ UNCHANGED <<env, outputFile, locals, transport>>

(***************************************************************************)
(* main: the fetch loop.                                                   *)
(***************************************************************************)
\* variant: the output file is opened before the loop
EnterLive_OpensOutput ==
    /\ pc = "token_check"
    /\ Truthy(user_token)
    /\ results' = <<>>
    /\ i' = 0
    /\ outputFile' = [exists |-> TRUE, data |-> <<>>]
    /\ pc' = "loop"
    /\ UNCHANGED <<env, exitCode, documents, user_token, response, written,
                   transport, stdout>>

\* results = []; the for loop starts
EnterLive ==
    /\ pc = "token_check"
    /\ ~IsDryMode(user_token)
    /\ results' = <<>>
    /\ i' = 0
    /\ pc' = "loop"
    /\ UNCHANGED <<env, outputFile, exitCode, documents, user_token, response,
                   written, transport, stdout>>

\* the descriptor enumerate(documents, 1) yields with index k
Enumerate(docs, k) == docs[k]

\* variant: descriptors whose fetch failed are left out of the results
AppendResult_SkipFailed(res, doc) ==
    IF Truthy(DocGetContent(doc)) THEN Append(res, doc) ELSE res

\* results.append(doc)
AppendResult(res, doc) == Append(res, doc)

\* the next descriptor: two progress lines, then subprocess.run starts curl
StartFetch ==
    /\ pc = "loop"
    /\ i < Len(documents)
    /\ i' = i + 1
    /\ LET doc == Enumerate(documents, i + 1) IN
         /\ stdout' = stdout \o
              <<"\n[" \o ToString(i + 1) \o "/" \o ToString(Len(documents))
                   \o "] Retrieving: " \o doc.title,
                "  Token: " \o doc.document_token>>
         /\ curlCalls' = Append(curlCalls, CurlArgv(doc.document_token, user_token))
    /\ inFlight' = inFlight + 1
    /\ pc' = "curl"
    /\ UNCHANGED <<env, outputFile, exitCode, documents, user_token, results,
                   response, written, responses>>

\* curl ends: subprocess.run returns the CompletedProcess
CurlReturns ==
    /\ pc = "curl"
    /\ \E r \in CompletedProcesses :
         /\ response' = r
         /\ responses' = Append(responses, r)
    /\ inFlight' = inFlight - 1
    /\ pc' = "returned"
    /\ UNCHANGED <<env, outputFile, exitCode, documents, user_token, results,
                   i, written, curlCalls, stdout>>

\* subprocess.run raises (FileNotFoundError when curl cannot be started,
\* UnicodeDecodeError when the body is not text): the call is outside the
\* try block, the exception leaves main and the process ends with status 1
CurlRaises ==
    /\ pc = "curl"
    /\ inFlight' = inFlight - 1
    /\ exitCode' = 1
    /\ pc' = "crashed"
    /\ UNCHANGED <<env, outputFile, locals, curlCalls, responses, stdout>>

\* the value main stores in doc['content']: `if content:` ... else None
Attached(content) == IF Truthy(content) THEN content ELSE None

ProgressLine(content) ==
    IF Truthy(content)
    THEN "   Content retrieved (" \o ToString(Len(content.s)) \o " characters)"
    ELSE "   Failed to retrieve content"

\* the rest of get_content_via_api and of the loop body
AttachContent ==
    /\ pc = "returned"
    /\ LET content == ContentOf(response)
           doc == SetItem(Enumerate(documents, i), "content", Attached(content))
       IN /\ documents' = [documents EXCEPT ![i] = doc]
          /\ stdout' = Append(stdout, ProgressLine(content))
          /\ results' = AppendResult(results, doc)
    /\ pc' = "loop"
    /\ UNCHANGED <<env, outputFile, exitCode, user_token, i, response, written,
                   transport>>

(***************************************************************************)
(* main: the report.                                                       *)
(***************************************************************************)
\* variant: open(OUTPUT_FILE, 'a') keeps what the file held
OpenForWrite_Append(file) == [exists |-> TRUE, data |-> file.data]

\* open(OUTPUT_FILE, 'w'): the file exists and is empty
OpenForWrite(file) == [exists |-> TRUE, data |-> <<>>]

\* f.write(s)
Write(file, chunks) == [file EXCEPT !.data = file.data \o chunks]

ReportHeader ==
    <<Line80Eq \o "\n",
      "LARK WIKI DOCUMENTS - WITH CONTENT\n",
      Line80Eq \o "\n\n">>

NotAvailable == "[Content not available]\n\n"

\* the six lines that head a block
BlockHead(doc) ==
    <<" DOCUMENT " \o ToString(doc.number) \o ": " \o doc.title \o "\n",
      "   Level: " \o ToString(doc.level) \o "\n",
      "   Node Token: " \o doc.node_token \o "\n",
      "   Document Token: " \o doc.document_token \o "\n",
      "   URL: " \o doc.url \o "\n",
      "\n" \o Line80Dash \o "\n\n">>

BlockEnd == Line80Dash \o "\n\n"

\* variant: the text is written whenever the key is there
ReportBody_KeyPresent(doc) ==
    IF "content" \in DOMAIN doc
    THEN <<Format(doc["content"]), "\n\n">>
    ELSE <<NotAvailable>>

\* the content of a block: the text and a blank line, or the placeholder
ReportBody(doc) ==
    IF Truthy(DocGetContent(doc))
    THEN <<DocGetContent(doc).s, "\n\n">>
    ELSE <<NotAvailable>>

ReportBlock(doc) == BlockHead(doc) \o ReportBody(doc) \o <<BlockEnd>>

\* the loop is over: the output file is opened and the header written
OpenOutput ==
    /\ pc = "loop"
    /\ i = Len(documents)
    /\ outputFile' = Write(OpenForWrite(outputFile), ReportHeader)
    /\ written' = 0
    /\ pc' = "report"
    /\ UNCHANGED <<env, exitCode, documents, user_token, results, i, response,
                   transport, stdout>>

\* one block of the report
WriteBlock ==
    /\ pc = "report"
    /\ written < Len(results)
    /\ outputFile' = Write(outputFile, ReportBlock(results[written + 1]))
    /\ written' = written + 1
    /\ UNCHANGED <<env, pc, exitCode, documents, user_token, results, i,
                   response, transport, stdout>>

\* the file is closed, the closing lines printed, main returns
Finish ==
    /\ pc = "report"
    /\ written = Len(results)
    /\ stdout' = stdout \o
         <<"\n" \o Line80Eq,
           " Content retrieval complete!",
           " Output saved to: " \o OUTPUT_FILE,
           Line80Eq>>
    /\ exitCode' = 0
    /\ pc' = "exited"
    /\ UNCHANGED <<env, outputFile, locals, transport>>

Next ==
    \/ MissingInput
    \/ MalformedInput
    \/ LoadDocuments
    \/ DryMode
    \/ EnterLive
    \/ StartFetch
    \/ CurlReturns
    \/ CurlRaises
    \/ AttachContent
    \/ OpenOutput
    \/ WriteBlock
    \/ Finish

Spec == Init /\ [][Next]_vars

TypeOK ==
    /\ pc \in {"start", "token_check", "loop", "curl", "returned", "report",
               "exited", "crashed"}
    /\ exitCode \in {NoExit, 0, 1}
    /\ i \in 0..Len(documents)
    /\ inFlight \in 0..1

(***************************************************************************)
(* get_content_via_mcp_tool.  main never calls it and nothing else in the  *)
(* script does, so no step of Next takes it: a run of the script never     *)
(* prints its line.  Only code that imports the module can call it; that   *)
(* caller is SpecImported, where main does not run.                        *)
(***************************************************************************)
McpToolLine(document_token) == "   Would retrieve content for: " \o document_token

\* what one call prints and returns
get_content_via_mcp_tool(document_token) ==
    [printed |-> <<McpToolLine(document_token)>>, returns |-> None]

InitImported ==
    /\ inputFile \in InputFiles
    /\ environToken \in EnvTokens
    /\ initialOutput \in OutputFiles
    /\ outputFile = initialOutput
    /\ pc = "imported"
    /\ exitCode = NoExit
    /\ documents = <<>>
    /\ user_token = None
    /\ results = <<>>
    /\ i = 0
    /\ response = NoResponse
    /\ written = 0
    /\ curlCalls = <<>>
    /\ inFlight = 0
    /\ responses = <<>>
    /\ stdout = <<>>

\* a caller of the imported module calls the function on some token: one
\* line on stdout, None returned, nothing else touched
CallMcpTool ==
    /\ pc = "imported"
    /\ Len(stdout) < MaxMcpCalls
    /\ \E d \in Descriptors :
         stdout' = stdout \o get_content_via_mcp_tool(d.document_token).printed
    /\ UNCHANGED <<env, outputFile, pc, exitCode, locals, transport>>

SpecImported == InitImported /\ [][CallMcpTool]_vars

(***************************************************************************)
(* Vocabulary of the properties.                                           *)
(***************************************************************************)
Terminated == pc \in {"exited", "crashed"}

\* the run has an input array and a credential: the fetch loop runs
LiveRun == inputFile.kind = "array" /\ Truthy(environToken)

\* main returned after writing the report
ReportDone == LiveRun /\ pc = "exited" /\ exitCode = 0

\* the report file read back: the blocks after the header, each with its six
\* head lines and either a text or the placeholder
MalformedBlock == [head |-> <<>>, body |-> "malformed", text |-> ""]

RECURSIVE ParseBlocks(_)
ParseBlocks(chunks) ==
    IF chunks = <<>> THEN <<>>
    ELSE IF Len(chunks) < 8 THEN <<MalformedBlock>>
    ELSE IF chunks[7] = NotAvailable /\ chunks[8] = BlockEnd
         THEN <<[head |-> SubSeq(chunks, 1, 6), body |-> "placeholder", text |-> ""]>>
              \o ParseBlocks(SubSeq(chunks, 9, Len(chunks)))
    ELSE IF Len(chunks) >= 9 /\ chunks[8] = "\n\n" /\ chunks[9] = BlockEnd
         THEN <<[head |-> SubSeq(chunks, 1, 6), body |-> "content", text |-> chunks[7]]>>
              \o ParseBlocks(SubSeq(chunks, 10, Len(chunks)))
    ELSE <<MalformedBlock>>

ReportBlocks ==
    IF /\ outputFile.exists
       /\ Len(outputFile.data) >= 3
       /\ SubSeq(outputFile.data, 1, 3) = ReportHeader
    THEN ParseBlocks(SubSeq(outputFile.data, 4, Len(outputFile.data)))
    ELSE <<MalformedBlock>>

\* the argument vector of the request for one descriptor, spelled out
ExpectedArgv(doc) ==
    <<"curl", "-s", "-X", "GET",
      "https://open.feishu.cn/open-apis/docx/v1/documents/" \o doc.document_token
          \o "/raw_content",
      "-H", "Authorization: Bearer " \o environToken.s>>

\* a fetch that failed in one of the ways curl can report: exit status not 0,
\* or a body that is not a JSON object
FailedTransport(r) ==
    \/ r.returncode # 0
    \/ r.stdout \in {BodyHtml, BodyList}

(***************************************************************************)
(* C1: in live mode a failing fetch, whatever the failure (curl exit       *)
(* status not 0, body not JSON, exception while performing the request),   *)
(* leaves the descriptor without content and never aborts the batch: the   *)
(* run ends with every descriptor requested and the report written.        *)
(***************************************************************************)
C1_FailureNeverAbortsBatch ==
    /\ \A k \in 1..Len(results) :
         FailedTransport(responses[k]) => DocGetContent(results[k]) = None
    /\ (LiveRun /\ Terminated) =>
         /\ pc = "exited"
         /\ exitCode = 0
         /\ Len(curlCalls) = Len(inputFile.docs)
         /\ Len(ReportBlocks) = Len(inputFile.docs)

(***************************************************************************)
(* C2: when curl succeeds and the parsed body has code 0, the descriptor's *)
(* content is the nested data.content ("" when it is missing); the content *)
(* is None only when the transport failed, the body did not parse or the   *)
(* code is not 0.                                                          *)
(***************************************************************************)
Code0(r) ==
    /\ r.returncode = 0
    /\ ~JsonLoads(r.stdout).raises
    /\ JsonLoads(r.stdout).value.t = "dict"
    /\ EqualsZero(DictGet(JsonLoads(r.stdout).value, "code", None))

NestedContent(r) ==
    LET inner == DictGet(JsonLoads(r.stdout).value, "data", EmptyDict) IN
    IF inner.t = "dict" THEN DictGet(inner, "content", Str("")) ELSE Str("")

C2_Code0ContentAttached ==
    \A k \in 1..Len(results) :
        /\ Code0(responses[k]) => DocGetContent(results[k]) = NestedContent(responses[k])
        /\ DocGetContent(results[k]) = None => ~Code0(responses[k])

(***************************************************************************)
(* C3: with an input array and no credential in the environment, no curl   *)
(* subprocess is ever started, and the run ends with exit status 0 after   *)
(* the dry-mode listing.                                                   *)
(***************************************************************************)
C3_NoCredentialNoTransport ==
    (inputFile.kind = "array" /\ environToken = None) =>
        /\ curlCalls = <<>>
        /\ inFlight = 0
        /\ Terminated =>
             /\ pc = "exited"
             /\ exitCode = 0
             /\ stdout = Banner(inputFile.docs) \o DryModeLines(inputFile.docs)

C3_Witness ==
    /\ inputFile.kind = "array"
    /\ environToken = None
    /\ Len(inputFile.docs) = 2
    /\ pc = "exited"

(***************************************************************************)
(* C4: the report written in live mode has exactly one block per input     *)
(* descriptor, in the order of the input array, whatever fetches failed.   *)
(***************************************************************************)
C4_OneBlockPerDescriptorInOrder ==
    ReportDone =>
        /\ Len(ReportBlocks) = Len(inputFile.docs)
        /\ \A k \in 1..Len(ReportBlocks) :
             ReportBlocks[k].head = BlockHead(inputFile.docs[k])

C4_Witness ==
    /\ ReportDone
    /\ inputFile.docs = <<DocB, DocA>>
    /\ ReportBlocks[1].body = "placeholder"
    /\ ReportBlocks[2].body = "content"

(***************************************************************************)
(* C5: when the input file does not exist the run exits with status 1,     *)
(* leaves the output file as it was, starts no curl subprocess and never   *)
(* reads the credential, whether or not one is set.                        *)
(***************************************************************************)
C5_MissingInputExitsOne ==
    inputFile.kind = "missing" =>
        /\ outputFile = initialOutput
        /\ curlCalls = <<>>
        /\ user_token = None
        /\ pc \in {"start", "exited"}
        /\ Terminated => exitCode = 1

C5_Witness ==
    /\ inputFile.kind = "missing"
    /\ Truthy(environToken)
    /\ initialOutput = NoFile
    /\ pc = "exited"

(***************************************************************************)
(* C6: in the written report, the block of a descriptor whose fetch        *)
(* returned code 0 with a text holds that text, the block of a descriptor  *)
(* whose fetch returned another code or a body that is not JSON holds the  *)
(* placeholder, and every block holds exactly one of the two.              *)
(***************************************************************************)
FetchedText(r) ==
    CASE r = [returncode |-> 0, stdout |-> BodyHello] -> "hello"
      [] r = [returncode |-> 0, stdout |-> BodyWorld] -> "world"
      [] OTHER -> ""

C6_ContentOrPlaceholder ==
    ReportDone =>
        /\ Len(ReportBlocks) = Len(responses)
        /\ \A k \in 1..Len(ReportBlocks) :
             LET r == responses[k]
                 b == ReportBlocks[k]
             IN /\ FetchedText(r) # "" => (b.body = "content" /\ b.text = FetchedText(r))
                /\ (r.returncode = 0 /\ r.stdout \in {BodyCode1, BodyHtml})
                      => b.body = "placeholder"
                /\ b.body \in {"content", "placeholder"}
                /\ b.body = "content" => b.text # ""

C6_Witness ==
    /\ ReportDone
    /\ Len(responses) = 2
    /\ responses[1] = [returncode |-> 0, stdout |-> BodyHello]
    /\ responses[2] = [returncode |-> 0, stdout |-> BodyCode1]

(***************************************************************************)
(* C7: the terminal states of a run.                                       *)
(***************************************************************************)
ExitAfterDryListing ==
    /\ pc = "exited"
    /\ exitCode = 0
    /\ inputFile.kind = "array"
    /\ ~Truthy(environToken)
    /\ stdout = Banner(inputFile.docs) \o DryModeLines(inputFile.docs)

ExitAfterReport ==
    /\ pc = "exited"
    /\ exitCode = 0
    /\ LiveRun
    /\ Len(ReportBlocks) = Len(inputFile.docs)
    /\ \A k \in 1..Len(ReportBlocks) : ReportBlocks[k].body # "malformed"

ExitMissingInput ==
    /\ pc = "exited"
    /\ exitCode = 1
    /\ inputFile.kind = "missing"

ExitUnhandledException ==
    /\ pc = "crashed"
    /\ exitCode = 1
    /\ \/ inputFile.kind = "malformed"
       \/ LiveRun /\ Len(curlCalls) = Len(responses) + 1

Count(flags) == Cardinality({k \in DOMAIN flags : flags[k]})

\* C7 as stated: every run ends in exactly one of three terminal states,
\* exit 0 after the dry-mode listing, exit 0 after the report is written,
\* or exit 1 because the input file is missing.
C7_ThreeTerminalStates ==
    Terminated =>
        Count(<<ExitAfterDryListing, ExitAfterReport, ExitMissingInput>>) = 1

\* C7 amended: every run that ends does so in exactly one of four terminal
\* states, the three above or exit 1 through an exception nothing handles
\* (input file that is not JSON, subprocess.run raising).
C7_FourTerminalStates ==
    /\ exitCode \in {NoExit, 0, 1}
    /\ Terminated <=> exitCode # NoExit
    /\ Terminated =>
         Count(<<ExitAfterDryListing, ExitAfterReport, ExitMissingInput,
                 ExitUnhandledException>>) = 1

C7_Witness ==
    /\ ExitUnhandledException
    /\ inputFile.kind = "malformed"

(***************************************************************************)
(* C8: in live mode exactly one request is issued per descriptor, in input *)
(* order and never repeated; at most one curl is running, a new one starts *)
(* only when the previous one has ended, and a live run that has ended has *)
(* issued one request for every descriptor of the input array.             *)
(***************************************************************************)
C8_OneRequestPerDescriptorSerialized ==
    /\ inFlight \in {0, 1}
    /\ inFlight = 1 <=> pc = "curl"
    /\ Len(curlCalls) = i
    /\ Len(curlCalls) <= Len(inputFile.docs)
    /\ \A k \in 1..Len(curlCalls) : curlCalls[k] = ExpectedArgv(inputFile.docs[k])
    /\ Len(responses) + inFlight + (IF pc = "crashed" /\ LiveRun THEN 1 ELSE 0)
          = Len(curlCalls)
    /\ (LiveRun /\ Terminated) => Len(curlCalls) = Len(inputFile.docs)

(***************************************************************************)
(* C9: the report a live run leaves is a function of the input array and   *)
(* of the responses alone: what the output file held before is gone.       *)
(***************************************************************************)
RECURSIVE ExpectedBlocks(_, _)
ExpectedBlocks(docs, resps) ==
    IF docs = <<>> THEN <<>>
    ELSE ReportBlock(SetItem(Head(docs), "content", Attached(ContentOf(Head(resps)))))
         \o ExpectedBlocks(Tail(docs), Tail(resps))

C9_ReportDependsOnInputAndResponsesOnly ==
    ReportDone =>
        outputFile = [exists |-> TRUE,
                      data |-> ReportHeader \o ExpectedBlocks(inputFile.docs, responses)]

C9_Witness ==
    /\ ReportDone
    /\ initialOutput = StaleFile
    /\ Len(inputFile.docs) = 2

(***************************************************************************)
(* C10: the output file changes only in a live run and only once every     *)
(* descriptor's fetch has been completed and recorded; until then, and in  *)
(* every dry, missing-input or aborted run, it is as the run found it.     *)
(***************************************************************************)
FetchesComplete ==
    /\ LiveRun
    /\ inFlight = 0
    /\ Len(responses) = Len(inputFile.docs)
    /\ Len(results) = Len(inputFile.docs)

C10_OutputOnlyAfterAllFetches == ~FetchesComplete => outputFile = initialOutput

C10_Witness ==
    /\ pc = "crashed"
    /\ LiveRun
    /\ Len(responses) = 1
    /\ initialOutput = StaleFile
    /\ outputFile = StaleFile

====
